---- MODULE Spec2Model ----
(***************************************************************************)
(* Model of stake-pool/program/src/big_vec.rs (BigVec: a vector of         *)
(* fixed-width records kept in place inside a caller-provided byte buffer) *)
(* and stake-pool/program/src/fee.rs (Fee: a bounded rational fee ratio).  *)
(*                                                                         *)
(* The buffer is modelled byte by byte.  Rust offsets are 0-based; the     *)
(* sequence `data` is 1-based, so byte offset k of the buffer is data[k+1].*)
(***************************************************************************)
EXTENDS Integers, Sequences, FiniteSets, TLC

\* ------------------------------------------------------------------ bounds
\* Number of whole records the buffer has room for.
MaxRecords == 3
\* Spare bytes after the last whole record (less than one record).
Slack == 3
\* How far failing pushes may drive the length prefix past MaxRecords.
MaxOverrun == 1

\* --------------------------------------------------------- program constants
VEC_SIZE_BYTES == 4
\* TestStruct::LEN, the record width of the element type used by the tests.
T_LEN == 8

\* self.data.len(): the capacity C of the caller's buffer.
BufferLen == VEC_SIZE_BYTES + MaxRecords * T_LEN + Slack

\* The u64 values of the TestStruct elements the operations are called with.
\* 256 has a low byte below that of 1 and 2: byte order and value order
\* differ on it.
Values == {1, 2, 256}

\* The elements used as keys when the buffer is kept as a sorted set.
Keys == Values \cup {3, 258}

\* The predicates handed to retain: "the record's value is in keep".
Predicates == SUBSET Values

VARIABLES
    data,      \* BigVec.data, the byte buffer
    old,       \* the buffer as it was when the last operation was called
    op,        \* the last operation called
    arg,       \* its arguments, a sequence of integers
    keep,      \* the predicate of the last retain
    res,       \* its outcome: "Ok", an error name, or "Panic"
    ret,       \* its return value, a sequence of integers
    views,     \* byte offsets of the live &mut T of deserialize_mut_slice
    iter,      \* the live Iter: <<len, current, current_index>>, or <<>>
    yielded,   \* what the live Iter has yielded so far
    pushed,    \* history: the elements whose push returned Ok
    inserted,  \* history: the elements whose insert_in_order returned Ok
    failed_pushes \* history: number of pushes that did not return Ok

bvars == <<data, old, op, arg, keep, res, ret, views, iter, yielded,
           pushed, inserted, failed_pushes>>

VARIABLES
    fee,        \* a Fee value: [numerator, denominator], each a u64
    rhs,        \* the Fee it is multiplied by
    amt,        \* the u64 amount handed to apply
    fee_op,     \* the last Fee operation: "try_new", "mul" or "apply"
    lhs,        \* the Fee that was multiplied by rhs in the last mul
    applied,    \* what the last apply computed: [fees, out]
    overflow,   \* an integer operation of the last mul overflowed u64
    composed,   \* number of multiplications so far
    input,      \* the (numerator, denominator) last handed to try_new or check
    verdict     \* what that try_new or check returned: "Ok" or an error name

fvars == <<fee, rhs, amt, fee_op, lhs, applied, overflow, composed, input,
           verdict>>

vars == <<bvars, fvars>>

\* ------------------------------------------------------------ byte helpers
\* &d[start..end]
Slice(d, start, end) == SubSeq(d, start + 1, end)

\* d with the bytes of s stored at offset start
WriteAt(d, start, s) ==
    [i \in 1..Len(d) |->
        IF i - 1 >= start /\ i - 1 < start + Len(s) THEN s[i - start] ELSE d[i]]

\* u32::from_le_bytes / u32::try_from_slice
U32FromLe(b) == b[1] + 256 * b[2] + 65536 * b[3] + 16777216 * b[4]

\* u32 BorshSerialize::serialize
U32ToLe(v) ==
    <<v % 256, (v \div 256) % 256, (v \div 65536) % 256, (v \div 16777216) % 256>>

\* BigVec::len
VecLen(d) == U32FromLe(Slice(d, 0, VEC_SIZE_BYTES))

\* TestStruct::pack_into_slice: the u64 value, little-endian.  Model values
\* are below 2^31, so the four high bytes are zero.
PackIntoSlice(v) ==
    [i \in 1..T_LEN |-> IF i <= 4 THEN (v \div (256 ^ (i - 1))) % 256 ELSE 0]

\* Reading a record through `&*(slice.as_ptr() as *const T)`: the u64 value
\* of the 8 little-endian bytes.
RECURSIVE LeValue(_, _)
LeValue(b, i) ==
    IF i > Len(b) THEN 0
    ELSE (IF b[i] = 0 THEN 0 ELSE b[i] * (256 ^ (i - 1))) + LeValue(b, i + 1)

AsT(slice) == LeValue(slice, 1)

\* sol_memmove(dst, src, n): overlap-safe move of n bytes
SolMemmove(d, dst, src, n) ==
    [i \in 1..Len(d) |->
        IF i - 1 >= dst /\ i - 1 < dst + n THEN d[i - dst + src] ELSE d[i]]

\* ------------------------------------------------------------------- get
\* BigVec::get: val is <<>> for None and <<v>> for Some(&T) of value v;
\* panic when the slice index runs out of the buffer.
Get(d, index) ==
    IF index < VecLen(d)
    THEN LET start == VEC_SIZE_BYTES + index * T_LEN
             end == start + T_LEN
         IN IF end > Len(d)
            THEN [panic |-> TRUE, val |-> <<>>]
            ELSE [panic |-> FALSE, val |-> <<AsT(Slice(d, start, end))>>]
    ELSE [panic |-> FALSE, val |-> <<>>]

\* --------------------------------------------------------- binary_search
\* The while loop of binary_search.
RECURSIVE SearchLoop(_, _, _, _)
SearchLoop(d, element, min, max) ==
    IF min <= max
    THEN LET mid == (max - min) \div 2 + min
             got == Get(d, mid)
         IN IF got.panic THEN [index |-> mid, is_found |-> FALSE, panic |-> TRUE]
            ELSE IF got.val # <<>>
            THEN IF got.val[1] = element
                 THEN [index |-> mid, is_found |-> TRUE, panic |-> FALSE]
                 ELSE IF got.val[1] < element
                 THEN SearchLoop(d, element, mid + 1, max)
                 ELSE IF mid = 0
                      THEN [index |-> 0, is_found |-> FALSE, panic |-> FALSE]
                      ELSE SearchLoop(d, element, min, mid - 1)
            ELSE [index |-> 0, is_found |-> FALSE, panic |-> FALSE]
    ELSE [index |-> min, is_found |-> FALSE, panic |-> FALSE]

\* Mutant: the search window taken as [0, len] instead of [0, len - 1].
BinarySearchUpperIsLen(d, element) ==
    LET len == VecLen(d)
    IN IF len = 0
       THEN [index |-> 0, is_found |-> FALSE, panic |-> FALSE]
       ELSE SearchLoop(d, element, 0, len)

BinarySearch(d, element) ==
    LET len == VecLen(d)
    IN IF len = 0
       THEN [index |-> 0, is_found |-> FALSE, panic |-> FALSE]
       ELSE SearchLoop(d, element, 0, len - 1)

\* ------------------------------------------------------------------ find
FindOp(d, element) ==
    LET bs == BinarySearch(d, element)
    IN IF bs.panic THEN [val |-> <<>>, res |-> "Panic"]
       ELSE IF bs.is_found
       THEN LET got == Get(d, bs.index)
            IN IF got.panic \/ got.val = <<>>
               THEN [val |-> <<>>, res |-> "Panic"]
               ELSE [val |-> got.val, res |-> "Ok"]
       ELSE [val |-> <<>>, res |-> "Ok"]

\* ------------------------------------------------------------------ push
PushOp(d, element) ==
    LET vec_len == VecLen(d)
        start_index == VEC_SIZE_BYTES + vec_len * T_LEN
        end_index == start_index + T_LEN
        d1 == WriteAt(d, 0, U32ToLe(vec_len + 1))
    IN IF Len(d) < end_index
       THEN [data |-> d1, res |-> "AccountDataTooSmall"]
       ELSE [data |-> WriteAt(d1, start_index, PackIntoSlice(element)),
             res |-> "Ok"]

\* ------------------------------------------------------- insert_in_order
\* Mutant: the element is stored at its index without shifting the tail.
InsertInOrderOpNoShift(d, element) ==
    LET bs == BinarySearch(d, element)
    IN IF bs.panic THEN [data |-> d, res |-> "Panic"]
       ELSE IF bs.is_found THEN [data |-> d, res |-> "InvalidArgument"]
       ELSE
         LET buffer_len == Len(d)
             vec_len == VecLen(d) + 1
         IN IF VEC_SIZE_BYTES + vec_len * T_LEN > buffer_len
            THEN [data |-> d, res |-> "AccountDataTooSmall"]
            ELSE
              LET d1 == WriteAt(d, 0, U32ToLe(vec_len))
                  start == VEC_SIZE_BYTES + bs.index * T_LEN
              IN [data |-> WriteAt(d1, start, PackIntoSlice(element)),
                  res |-> "Ok"]

\* Mutant: the length prefix is written before the capacity check, as push
\* does.
InsertInOrderOpLenFirst(d, element) ==
    LET bs == BinarySearch(d, element)
    IN IF bs.panic THEN [data |-> d, res |-> "Panic"]
       ELSE IF bs.is_found THEN [data |-> d, res |-> "InvalidArgument"]
       ELSE
         LET buffer_len == Len(d)
             vec_len == VecLen(d) + 1
             d1 == WriteAt(d, 0, U32ToLe(vec_len))
         IN IF VEC_SIZE_BYTES + vec_len * T_LEN > buffer_len
            THEN [data |-> d1, res |-> "AccountDataTooSmall"]
            ELSE
              LET start == VEC_SIZE_BYTES + bs.index * T_LEN
                  bytes_to_shift == (vec_len - 1 - bs.index) * T_LEN
              IN [data |-> WriteAt(SolMemmove(d1, start + T_LEN, start,
                                              bytes_to_shift),
                                   start, PackIntoSlice(element)),
                  res |-> "Ok"]

InsertInOrderOp(d, element) ==
    LET bs == BinarySearch(d, element)
    IN IF bs.panic THEN [data |-> d, res |-> "Panic"]
       ELSE IF bs.is_found THEN [data |-> d, res |-> "InvalidArgument"]
       ELSE
         LET buffer_len == Len(d)
             vec_len == VecLen(d) + 1
         IN IF VEC_SIZE_BYTES + vec_len * T_LEN > buffer_len
            THEN [data |-> d, res |-> "AccountDataTooSmall"]
            ELSE
              LET d1 == WriteAt(d, 0, U32ToLe(vec_len))
                  start == VEC_SIZE_BYTES + bs.index * T_LEN
                  bytes_to_shift == (vec_len - 1 - bs.index) * T_LEN
              IN IF start + T_LEN > buffer_len
                 THEN [data |-> d1, res |-> "Panic"]
                 ELSE [data |-> WriteAt(SolMemmove(d1, start + T_LEN, start,
                                                   bytes_to_shift),
                                        start, PackIntoSlice(element)),
                       res |-> "Ok"]

\* ---------------------------------------------------------------- retain
\* predicate(slice) for the predicate "value in k"
Predicate(k, slice) == AsT(slice) \in k

\* The for loop of retain, from start_index on; st carries the mutable
\* locals and the buffer.
RECURSIVE RetainLoop(_, _, _, _)
RetainLoop(st, k, start_index, data_end_index) ==
    IF start_index >= data_end_index THEN st
    ELSE
      LET end_index == start_index + T_LEN
      IN IF end_index > Len(st.data) THEN [st EXCEPT !.panic = TRUE]
         ELSE IF ~Predicate(k, Slice(st.data, start_index, end_index))
         THEN LET gap == st.removals_found * T_LEN
                  d1 == IF st.removals_found > 0
                        THEN SolMemmove(st.data, st.dst_start_index,
                                        st.dst_start_index + gap,
                                        start_index - gap - st.dst_start_index)
                        ELSE st.data
              IN RetainLoop([data |-> d1,
                             removals_found |-> st.removals_found + 1,
                             dst_start_index |-> start_index - gap,
                             vec_len |-> st.vec_len - 1,
                             panic |-> FALSE],
                            k, start_index + T_LEN, data_end_index)
         ELSE RetainLoop(st, k, start_index + T_LEN, data_end_index)

\* Mutant: the final memmove after the loop is left out.
RetainOpNoFinalMove(d, k) ==
    LET vec_len == VecLen(d)
        data_start_index == VEC_SIZE_BYTES
        data_end_index == data_start_index + vec_len * T_LEN
        st == RetainLoop([data |-> d, removals_found |-> 0,
                          dst_start_index |-> 0, vec_len |-> vec_len,
                          panic |-> FALSE],
                         k, data_start_index, data_end_index)
    IN IF st.panic THEN [data |-> st.data, res |-> "Panic"]
       ELSE [data |-> WriteAt(st.data, 0, U32ToLe(st.vec_len)), res |-> "Ok"]

RetainOp(d, k) ==
    LET vec_len == VecLen(d)
        data_start_index == VEC_SIZE_BYTES
        data_end_index == data_start_index + vec_len * T_LEN
        st == RetainLoop([data |-> d, removals_found |-> 0,
                          dst_start_index |-> 0, vec_len |-> vec_len,
                          panic |-> FALSE],
                         k, data_start_index, data_end_index)
    IN IF st.panic THEN [data |-> st.data, res |-> "Panic"]
       ELSE
         LET gap == st.removals_found * T_LEN
             d2 == IF st.removals_found > 0
                   THEN SolMemmove(st.data, st.dst_start_index,
                                   st.dst_start_index + gap,
                                   data_end_index - gap - st.dst_start_index)
                   ELSE st.data
         IN [data |-> WriteAt(d2, 0, U32ToLe(st.vec_len)), res |-> "Ok"]

\* ------------------------------------------------- unsigned wide integers
\* u64 and u128 values exceed the integers of the model checker, so they are
\* kept as their little-endian bytes (8 for u64, 16 for u128) and computed
\* with byte-wise schoolbook arithmetic.  A natural number is a sequence of
\* bytes, least significant first, of any length.

\* a cut or zero-extended to n bytes: `as u64` / `as u128`, wrapping
Pad(a, n) == [i \in 1..n |-> IF i <= Len(a) THEN a[i] ELSE 0]

\* the u64 of a number the model checker can hold (below 2^31)
U64Of(n) == [i \in 1..8 |-> IF i <= 4 THEN (n \div (256 ^ (i - 1))) % 256 ELSE 0]

\* u64::MAX
U64_MAX == [i \in 1..8 |-> 255]

MaxInt(x, y) == IF x >= y THEN x ELSE y

\* a without its high zero bytes
Trim(a) ==
    LET nz == {i \in 1..Len(a) : a[i] # 0}
    IN IF nz = {} THEN <<>>
       ELSE SubSeq(a, 1, CHOOSE i \in nz : \A j \in nz : j <= i)

RECURSIVE CmpLoop(_, _, _)
CmpLoop(a, b, i) ==
    IF i = 0 THEN 0
    ELSE IF a[i] > b[i] THEN 1
    ELSE IF a[i] < b[i] THEN -1
    ELSE CmpLoop(a, b, i - 1)

\* a is below 2^15: its value and those of sums and products of two such
\* numbers are integers the model checker can hold
IsSmall(a) == \A i \in 1..Len(a) : IF i = 2 THEN a[i] < 128 ELSE i = 1 \/ a[i] = 0

SmallValue(a) ==
    (IF Len(a) >= 1 THEN a[1] ELSE 0) + 256 * (IF Len(a) >= 2 THEN a[2] ELSE 0)

\* the n low bytes of an integer below 2^31
BytesOf(v, n) == [i \in 1..n |-> IF i <= 4 THEN (v \div (256 ^ (i - 1))) % 256 ELSE 0]

\* -1, 0, 1 as a < b, a = b, a > b
NatCmp(a, b) ==
    LET n == MaxInt(Len(a), Len(b))
    IN IF IsSmall(a) /\ IsSmall(b)
       THEN (IF SmallValue(a) > SmallValue(b) THEN 1
             ELSE IF SmallValue(a) < SmallValue(b) THEN -1 ELSE 0)
       ELSE CmpLoop(Pad(a, n), Pad(b, n), n)

\* the bytes from position i on of a + b + carry, for a and b of one length
RECURSIVE AddFrom(_, _, _, _)
AddFrom(a, b, i, carry) ==
    IF i > Len(a) THEN <<carry>>
    ELSE LET t == a[i] + b[i] + carry
         IN <<t % 256>> \o AddFrom(a, b, i + 1, t \div 256)

\* a + b, one byte more than the longer of a and b
NatAdd(a, b) ==
    LET n == MaxInt(Len(a), Len(b))
    IN IF IsSmall(a) /\ IsSmall(b)
       THEN BytesOf(SmallValue(a) + SmallValue(b), n + 1)
       ELSE AddFrom(Pad(a, n), Pad(b, n), 1, 0)

\* the bytes from position i on of a - b - borrow
RECURSIVE SubFrom(_, _, _, _)
SubFrom(a, b, i, borrow) ==
    IF i > Len(a) THEN <<>>
    ELSE LET t == a[i] - b[i] - borrow
         IN IF t < 0
            THEN <<t + 256>> \o SubFrom(a, b, i + 1, 1)
            ELSE <<t>> \o SubFrom(a, b, i + 1, 0)

\* a - b for a >= b
NatSub(a, b) ==
    LET n == MaxInt(Len(a), Len(b))
    IN SubFrom(Pad(a, n), Pad(b, n), 1, 0)

\* the bytes from position i on of a * m + carry, for one byte m
RECURSIVE MulByteFrom(_, _, _, _)
MulByteFrom(a, m, i, carry) ==
    IF i > Len(a) THEN <<carry>>
    ELSE LET t == a[i] * m + carry
         IN <<t % 256>> \o MulByteFrom(a, m, i + 1, t \div 256)

\* a * m for one byte m
NatMulByte(a, m) == MulByteFrom(a, m, 1, 0)

\* a * 256^k
ShiftBytes(a, k) == [j \in 1..(Len(a) + k) |-> IF j <= k THEN 0 ELSE a[j - k]]

\* schoolbook multiplication: st.i is the position of the next byte of b,
\* st.acc the sum of the partial products so far
RECURSIVE MulLoop(_, _, _)
MulLoop(a, b, st) ==
    IF st.i > Len(b) THEN st.acc
    ELSE MulLoop(a, b,
                 [i |-> st.i + 1,
                  acc |-> Pad(NatAdd(st.acc,
                                     ShiftBytes(NatMulByte(a, b[st.i]), st.i - 1)),
                              Len(a) + Len(b))])

\* a * b, as many bytes as a and b together
NatMul(a, b) ==
    LET ta == Trim(a)
        tb == Trim(b)
    IN IF IsSmall(a) /\ IsSmall(b)
       THEN BytesOf(SmallValue(a) * SmallValue(b), Len(a) + Len(b))
       ELSE Pad(MulLoop(ta, tb, [i |-> 1, acc |-> Pad(<<>>, Len(ta) + Len(tb))]),
                Len(a) + Len(b))

\* the largest byte q with q * b <= r, found bit by bit
RECURSIVE QuotByte(_, _, _, _)
QuotByte(r, b, q, bit) ==
    IF bit = 0 THEN q
    ELSE IF NatCmp(NatMulByte(b, q + bit), r) <= 0
         THEN QuotByte(r, b, q + bit, bit \div 2)
         ELSE QuotByte(r, b, q, bit \div 2)

\* long division, most significant byte of a first: st.i is the position of
\* the next byte of a, st.r the running remainder, st.q the quotient bytes
\* found so far
RECURSIVE DivLoop(_, _, _)
DivLoop(a, b, st) ==
    IF st.i = 0 THEN st.q
    ELSE LET r1 == <<a[st.i]>> \o st.r
             qb == QuotByte(r1, b, 0, 128)
         IN DivLoop(a, b, [i |-> st.i - 1,
                           q |-> <<qb>> \o st.q,
                           r |-> Pad(NatSub(r1, NatMulByte(b, qb)), Len(b))])

\* floor(a / b) for b > 0, as many bytes as a
NatDiv(a, b) ==
    LET ta == Trim(a)
        tb == Trim(b)
    IN Pad(DivLoop(ta, tb, [i |-> Len(ta), q |-> <<>>, r |-> Pad(<<>>, Len(tb))]),
           Len(a))

\* u64 `*`: the wrapped product, and whether it overflowed (a panic when
\* the build checks overflow, the wrapped value otherwise)
U64Mul(a, b) ==
    LET p == NatMul(a, b)
    IN [val |-> Pad(p, 8), overflow |-> \E i \in 9..Len(p) : p[i] # 0]

\* u64 `/`
U64Div(a, b) == Pad(NatDiv(a, b), 8)

\* std::cmp::max on u64
U64Max(a, b) == IF NatCmp(a, b) >= 0 THEN a ELSE b

\* ------------------------------------------------- deserialize_mut_slice
\* usize is 64 bits wide on the targets of the program.
\* usize `+`: the wrapped sum, and whether it overflowed
USizeAdd(a, b) ==
    LET t == NatAdd(a, b)
    IN [val |-> Pad(t, 8), overflow |-> \E i \in 9..Len(t) : t[i] # 0]

\* usize::saturating_add
USizeSaturatingAdd(a, b) ==
    LET t == USizeAdd(a, b)
    IN IF t.overflow THEN U64_MAX ELSE t.val

\* usize::saturating_mul
USizeSaturatingMul(a, b) ==
    LET t == U64Mul(a, b)
    IN IF t.overflow THEN U64_MAX ELSE t.val

\* the number a usize below 2^31 stands for
USizeToInt(a) == LeValue(a, 1)

\* skip and len are usize values.  overflow_checks tells whether the build
\* panics on integer overflow or wraps.  The returned Vec<&mut T> is the
\* sequence of the byte offsets the references point at.
DeserializeMutSliceOp(d, skip, len, overflow_checks) ==
    LET vec_len == VecLen(d)
        sum == USizeAdd(skip, len)
    IN IF sum.overflow /\ overflow_checks
       THEN [views |-> <<>>, res |-> "Panic"]
       ELSE IF NatCmp(sum.val, U64Of(vec_len)) > 0
       THEN [views |-> <<>>, res |-> "AccountDataTooSmall"]
       ELSE
         LET start_index == USizeSaturatingAdd(U64Of(VEC_SIZE_BYTES),
                                USizeSaturatingMul(skip, U64Of(T_LEN)))
             end_index == USizeSaturatingAdd(start_index,
                                USizeSaturatingMul(len, U64Of(T_LEN)))
         IN IF NatCmp(start_index, end_index) > 0
               \/ NatCmp(end_index, U64Of(Len(d))) > 0
            THEN [views |-> <<>>, res |-> "Panic"]
            ELSE LET first == USizeToInt(start_index)
                     chunks == (USizeToInt(end_index) - first) \div T_LEN
                 IN [views |-> [j \in 1..chunks |-> first + (j - 1) * T_LEN],
                     res |-> "Ok"]

\* ------------------------------------------------------------------- Fee
MAX_FEE_PRECISION == 1000000000

\* Mutant: a numerator equal to the denominator is refused.
FeeCheckStrict(f) ==
    IF NatCmp(f.denominator, U64Of(0)) = 0
       \/ NatCmp(f.denominator, U64Of(MAX_FEE_PRECISION)) > 0
    THEN "InvalidFeeDenominator"
    ELSE IF NatCmp(f.numerator, f.denominator) >= 0
    THEN "FeeTooHigh"
    ELSE "Ok"

\* Fee::check
FeeCheck(f) ==
    IF NatCmp(f.denominator, U64Of(0)) = 0
       \/ NatCmp(f.denominator, U64Of(MAX_FEE_PRECISION)) > 0
    THEN "InvalidFeeDenominator"
    ELSE IF NatCmp(f.numerator, f.denominator) > 0
    THEN "FeeTooHigh"
    ELSE "Ok"

\* Mutant: the product is taken in u64, without widening to u128.
FeeApplyNarrow(f, a) ==
    LET fees == U64Div(U64Mul(a, f.numerator).val, f.denominator)
    IN [fees |-> Pad(fees, 16), out |-> fees]

\* Fee::apply: fees is the u128 quotient, out is `fees as u64`
FeeApply(f, a) ==
    LET amt_expanded == Pad(a, 16)
        numerator_expanded == Pad(f.numerator, 16)
        denominator_expanded == Pad(f.denominator, 16)
        fees == Pad(NatDiv(Pad(NatMul(amt_expanded, numerator_expanded), 16),
                           denominator_expanded), 16)
    IN [fees |-> fees, out |-> Pad(fees, 8)]

\* impl ops::Mul for Fee
FeeMul(self, other) ==
    LET n0 == U64Mul(self.numerator, other.numerator)
        d0 == U64Mul(self.denominator, other.denominator)
        over == n0.overflow \/ d0.overflow
    IN IF NatCmp(d0.val, U64Of(MAX_FEE_PRECISION)) > 0
       THEN LET divisor == U64Max(U64Of(2),
                                  U64Div(d0.val, U64Of(MAX_FEE_PRECISION)))
            IN [numerator |-> U64Div(n0.val, divisor),
                denominator |-> U64Div(d0.val, divisor),
                overflow |-> over]
       ELSE [numerator |-> n0.val, denominator |-> d0.val, overflow |-> over]


\* ------------------------------------------------------------ state machine
\* One call: what every operation records about itself.  Calling into the
\* BigVec ends the life of earlier views and iterators (the aliasing
\* discipline callers must keep).
Call(name, a, k, d, r, rv, vw) ==
    /\ old' = data
    /\ data' = d
    /\ op' = name
    /\ arg' = a
    /\ keep' = k
    /\ res' = r
    /\ ret' = rv
    /\ views' = vw
    /\ iter' = <<>>
    /\ yielded' = <<>>
    /\ UNCHANGED fvars

History(p, i, f) ==
    /\ pushed' = p
    /\ inserted' = i
    /\ failed_pushes' = f

NoHistory == UNCHANGED <<pushed, inserted, failed_pushes>>

Zeroes == [i \in 1..BufferLen |-> 0]

\* Fee::zero
FeeZero == [numerator |-> U64Of(0), denominator |-> U64Of(1)]

\* No Fee operation has run.
InitFeeIdle ==
    /\ fee = FeeZero
    /\ rhs = FeeZero
    /\ lhs = FeeZero
    /\ amt = U64Of(0)
    /\ fee_op = "zero"
    /\ applied = [fees |-> Pad(<<>>, 16), out |-> U64Of(0)]
    /\ overflow = FALSE
    /\ composed = 0
    /\ input = FeeZero
    /\ verdict = "Ok"

\* `let mut data = [0u8; N]; BigVec { data: &mut data }`
InitVec ==
    /\ data = Zeroes
    /\ old = Zeroes
    /\ op = "new"
    /\ arg = <<>>
    /\ keep = {}
    /\ res = "Ok"
    /\ ret = <<>>
    /\ views = <<>>
    /\ iter = <<>>
    /\ yielded = <<>>
    /\ pushed = <<>>
    /\ inserted = {}
    /\ failed_pushes = 0

Push(element) ==
    /\ VecLen(data) < MaxRecords + MaxOverrun
    /\ LET r == PushOp(data, element)
       IN Call("push", <<element>>, {}, r.data, r.res, <<>>, <<>>)

InsertInOrder(element) ==
    LET r == InsertInOrderOp(data, element)
    IN Call("insert_in_order", <<element>>, {}, r.data, r.res, <<>>, <<>>)

Retain(k) ==
    LET r == RetainOp(data, k)
    IN Call("retain", <<>>, k, r.data, r.res, <<>>, <<>>)

Find(element) ==
    LET r == FindOp(data, element)
    IN Call("find", <<element>>, {}, data, r.res, r.val, <<>>)

DeserializeMutSlice(skip, len, overflow_checks) ==
    \E r \in {DeserializeMutSliceOp(data, skip, len, overflow_checks)} :
        Call("deserialize_mut_slice", <<skip, len>>, {}, data, r.res, r.views,
             r.views)

\* `slice[j].value = v` through the j-th returned reference (j from 0)
ViewWrite(j, v) ==
    /\ j < Len(views)
    /\ old' = data
    /\ data' = WriteAt(data, views[j + 1], PackIntoSlice(v))
    /\ op' = "view_write"
    /\ arg' = <<arg[1], arg[2], j, v>>
    /\ res' = "Ok"
    /\ UNCHANGED <<keep, ret, views, iter, yielded>>
    /\ UNCHANGED fvars

Indexes == 0..MaxRecords

\* The usize arguments handed to deserialize_mut_slice.
USizes == {U64Of(i) : i \in Indexes} \cup {U64_MAX}

\* ------------------------------------------------------------------ iter
\* BigVec::iter: the fields len, current, current_index of the new Iter
IterOp(d) == <<VecLen(d), 0, VEC_SIZE_BYTES>>

\* Mutant: current_index is not advanced.
IterNextOpIndexStuck(d, it) ==
    IF it[2] = it[1]
    THEN [iter |-> it, val |-> <<>>, res |-> "Ok"]
    ELSE LET end_index == it[3] + T_LEN
         IN IF end_index > Len(d)
            THEN [iter |-> it, val |-> <<>>, res |-> "Panic"]
            ELSE [iter |-> <<it[1], it[2] + 1, it[3]>>,
                  val |-> <<AsT(Slice(d, it[3], end_index))>>,
                  res |-> "Ok"]

\* Iter::next on the iterator it over the buffer d
IterNextOp(d, it) ==
    IF it[2] = it[1]
    THEN [iter |-> it, val |-> <<>>, res |-> "Ok"]
    ELSE LET end_index == it[3] + T_LEN
         IN IF end_index > Len(d)
            THEN [iter |-> it, val |-> <<>>, res |-> "Panic"]
            ELSE [iter |-> <<it[1], it[2] + 1, end_index>>,
                  val |-> <<AsT(Slice(d, it[3], end_index))>>,
                  res |-> "Ok"]

IterNew ==
    /\ old' = data
    /\ op' = "iter"
    /\ arg' = <<>>
    /\ res' = "Ok"
    /\ ret' = <<>>
    /\ iter' = IterOp(data)
    /\ yielded' = <<>>
    /\ views' = <<>>
    /\ UNCHANGED <<data, keep>>
    /\ UNCHANGED fvars

IterNext ==
    /\ iter # <<>>
    /\ LET r == IterNextOp(data, iter)
       IN /\ op' = "next"
          /\ res' = r.res
          /\ ret' = r.val
          /\ iter' = r.iter
          /\ yielded' = yielded \o r.val
    /\ UNCHANGED <<data, old, arg, keep, views>>
    /\ UNCHANGED fvars

\* ----------------------------------------------------------- specifications
Init == InitVec /\ InitFeeIdle

\* Any mix of the three operations that change the length.
Next ==
    \/ \E e \in Values : Push(e) /\ NoHistory
    \/ \E e \in Values : InsertInOrder(e) /\ NoHistory
    \/ \E k \in Predicates : Retain(k) /\ NoHistory

Spec == Init /\ [][Next]_vars

\* The buffer used as a sorted set: insert_in_order and find only.
InsertLogged(element) ==
    /\ InsertInOrder(element)
    /\ History(pushed,
               IF res' = "Ok" THEN inserted \cup {element} ELSE inserted,
               failed_pushes)

NextSorted ==
    \/ \E e \in Keys : InsertLogged(e)
    \/ \E e \in Keys : Find(e) /\ NoHistory

SpecSorted == Init /\ [][NextSorted]_vars

\* The buffer used append-only and read back through iter().
PushLogged(element) ==
    /\ Push(element)
    /\ History(IF res' = "Ok" THEN Append(pushed, element) ELSE pushed,
               inserted,
               IF res' = "Ok" THEN failed_pushes ELSE failed_pushes + 1)

NextPush ==
    \/ \E e \in Values : PushLogged(e)
    \/ IterNew /\ NoHistory
    \/ IterNext /\ NoHistory

SpecPush == Init /\ [][NextPush]_vars

\* Records appended, then read and written through deserialize_mut_slice.
\* the record values pushed and written through the references
ViewValues == {1, 256}

NextViews ==
    \/ \E e \in ViewValues : Push(e) /\ NoHistory
    \/ \E skip \in USizes, len \in USizes, overflow_checks \in BOOLEAN :
           DeserializeMutSlice(skip, len, overflow_checks) /\ NoHistory
    \/ \E j \in Indexes, v \in ViewValues : ViewWrite(j, v) /\ NoHistory

SpecViews == Init /\ [][NextViews]_vars

\* ------------------------------------------------------- Fee specification
\* Bound on the number of successive multiplications.
MaxCompose == 2

\* Numerators and denominators handed to try_new.
FeeDenominators == {2, 50000, 50001, MAX_FEE_PRECISION}
FeeNumerators == {0, 1, 50000, MAX_FEE_PRECISION}

\* Fee::try_new: <<>> on an error, <<fee>> on success
FeeTryNew(n, d) ==
    LET f == [numerator |-> U64Of(n), denominator |-> U64Of(d)]
    IN IF FeeCheck(f) = "Ok" THEN <<f>> ELSE <<>>

\* The Fee values try_new returns.
ValidFees ==
    {FeeTryNew(n, d)[1] : <<n, d>> \in
        {p \in FeeNumerators \X FeeDenominators : FeeTryNew(p[1], p[2]) # <<>>}}

\* The amounts handed to apply.
Amounts == {U64Of(1), U64Of(1000000007), U64_MAX}

InitFee ==
    /\ InitVec
    /\ fee \in ValidFees
    /\ rhs \in ValidFees
    /\ lhs = FeeZero
    /\ amt \in Amounts
    /\ fee_op = "try_new"
    /\ applied = [fees |-> Pad(<<>>, 16), out |-> U64Of(0)]
    /\ overflow = FALSE
    /\ composed = 0
    /\ input = fee
    /\ verdict = "Ok"

\* fee = fee * rhs
Mul ==
    /\ composed < MaxCompose
    /\ LET r == FeeMul(fee, rhs)
       IN /\ fee' = [numerator |-> r.numerator, denominator |-> r.denominator]
          /\ overflow' = r.overflow
    /\ lhs' = fee
    /\ fee_op' = "mul"
    /\ composed' = composed + 1
    /\ UNCHANGED <<rhs, amt, applied, input, verdict>>
    /\ UNCHANGED bvars

\* fee.apply(amt)
Apply ==
    /\ applied' = FeeApply(fee, amt)
    /\ fee_op' = "apply"
    /\ UNCHANGED <<fee, rhs, lhs, amt, overflow, composed, input, verdict>>
    /\ UNCHANGED bvars

NextFee == Mul \/ Apply

SpecFee == InitFee /\ [][NextFee]_vars

\* Specification of try_new and check over arbitrary u64 pairs.
\* Fee::try_new: the Result, as its verdict and the value of an Ok
FeeTryNewOp(numerator, denominator) ==
    LET r == [numerator |-> numerator, denominator |-> denominator]
        checked == FeeCheck(r)
    IN IF checked # "Ok"
       THEN [res |-> checked, fee |-> <<>>]
       ELSE [res |-> "Ok", fee |-> <<r>>]

\* The u64 values handed to try_new and found in a deserialized Fee, in
\* ascending order: 0, 1, MAX_FEE_PRECISION - 1, MAX_FEE_PRECISION,
\* MAX_FEE_PRECISION + 1, 2^32 and u64::MAX.
U64Samples ==
    << U64Of(0), U64Of(1), U64Of(MAX_FEE_PRECISION - 1),
       U64Of(MAX_FEE_PRECISION), U64Of(MAX_FEE_PRECISION + 1),
       <<0, 0, 0, 0, 1, 0, 0, 0>>, U64_MAX >>

\* `fee = Fee::try_new(numerator, denominator)?`
TryNew(numerator, denominator) ==
    \E r \in {FeeTryNewOp(numerator, denominator)} :
        /\ input' = [numerator |-> numerator, denominator |-> denominator]
        /\ verdict' = r.res
        /\ fee' = IF r.res = "Ok" THEN r.fee[1] ELSE fee
        /\ fee_op' = "try_new"
        /\ UNCHANGED <<rhs, lhs, amt, applied, overflow, composed>>
        /\ UNCHANGED bvars

\* check() on a Fee deserialized from arbitrary bytes
Check(numerator, denominator) ==
    /\ input' = [numerator |-> numerator, denominator |-> denominator]
    /\ verdict' = FeeCheck(input')
    /\ fee_op' = "check"
    /\ UNCHANGED <<fee, rhs, lhs, amt, applied, overflow, composed>>
    /\ UNCHANGED bvars

NextTryNew ==
    \/ \E i \in DOMAIN U64Samples, j \in DOMAIN U64Samples :
           TryNew(U64Samples[i], U64Samples[j])
    \/ \E i \in DOMAIN U64Samples, j \in DOMAIN U64Samples :
           Check(U64Samples[i], U64Samples[j])

SpecTryNew == Init /\ [][NextTryNew]_vars

\* ------------------------------------------------------ property vocabulary
\* The layout invariant 4 + count * W <= C.
WellFormed(d) == VEC_SIZE_BYTES + VecLen(d) * T_LEN <= Len(d)

\* The values of the records at indices [0, len()) of a well-formed buffer.
Records(d) ==
    [i \in 1..VecLen(d) |->
        AsT(Slice(d, VEC_SIZE_BYTES + (i - 1) * T_LEN, VEC_SIZE_BYTES + i * T_LEN))]

SeqSet(s) == {s[i] : i \in DOMAIN s}

\* The values of the records below len() that lie inside the buffer (all of
\* them when the buffer is well-formed).
StoredValues(d) ==
    {AsT(Slice(d, VEC_SIZE_BYTES + i * T_LEN, VEC_SIZE_BYTES + (i + 1) * T_LEN)) :
        i \in {j \in 0..(VecLen(d) - 1) : VEC_SIZE_BYTES + (j + 1) * T_LEN <= Len(d)}}

StrictlyAscending(s) == \A i \in 1..(Len(s) - 1) : s[i] < s[i + 1]

Errors == {"AccountDataTooSmall", "InvalidArgument"}

\* The buffer has no room for one more record.
Full(d) == VEC_SIZE_BYTES + (VecLen(d) + 1) * T_LEN > Len(d)

\* ------------------------------------------------------------------- claims
\* C1: a push on a well-formed buffer with no room for another record
\* returns the capacity error and leaves every byte of the buffer, the
\* length prefix included, as it was.
C1_PushFullLeavesBufferUnchanged ==
    (op = "push" /\ WellFormed(old) /\ Full(old))
        => (res = "AccountDataTooSmall" /\ data = old)

\* C2: whatever sequence of push, insert_in_order and retain calls has run,
\* the layout invariant 4 + len() * W <= C holds.
C2_LayoutInvariant == WellFormed(data)

\* C4: when insert_in_order returns an error the buffer is what it was
\* before the call; the duplicate error is returned only for an element the
\* search found, and the capacity error only for an element it did not find
\* in a buffer without room for one more record.
C4_InsertErrorLeavesBufferUnchanged ==
    (op = "insert_in_order" /\ res \in Errors)
        => /\ data = old
           /\ res = "InvalidArgument" => arg[1] \in StoredValues(old)
           /\ res = "AccountDataTooSmall"
                 => Full(old) /\ ~BinarySearch(old, arg[1]).is_found

C4_Witness ==
    /\ op = "insert_in_order"
    /\ res = "AccountDataTooSmall"
    /\ VecLen(old) = MaxRecords
    /\ arg[1] \notin StoredValues(old)

\* C5: on a well-formed buffer retain returns Ok, and the buffer then holds
\* exactly the records that satisfied the predicate, in their original order,
\* and len() is their number.
C5_RetainKeepsExactlyTheSatisfying ==
    (op = "retain" /\ WellFormed(old))
        => /\ res = "Ok"
           /\ Records(data) = SelectSeq(Records(old), LAMBDA v : v \in keep)
           /\ VecLen(data) = Cardinality({i \in 1..VecLen(old) : Records(old)[i] \in keep})

\* A retain over a full buffer that drops the first record, keeps the next
\* and drops the last.
C5_Witness ==
    /\ op = "retain"
    /\ res = "Ok"
    /\ VecLen(old) = MaxRecords
    /\ Records(old)[1] \notin keep
    /\ Records(old)[2] \in keep
    /\ Records(old)[MaxRecords] \notin keep
    /\ VecLen(data) >= 1

\* C3: used from an empty buffer through insert_in_order only, the stored
\* records are strictly ascending, without duplicates, and are exactly the
\* elements whose insert returned Ok; each such insert raises len() by one.
C3_InsertKeepsSortedSet ==
    /\ WellFormed(data)
    /\ StrictlyAscending(Records(data))
    /\ SeqSet(Records(data)) = inserted
    /\ VecLen(data) = Cardinality(inserted)
    /\ (op = "insert_in_order" /\ res = "Ok")
           => /\ VecLen(data) = VecLen(old) + 1
              /\ SeqSet(Records(data)) = SeqSet(Records(old)) \cup {arg[1]}
              /\ arg[1] \notin SeqSet(Records(old))

\* An insert into the middle of the store that fills the buffer.
C3_Witness ==
    /\ op = "insert_in_order"
    /\ res = "Ok"
    /\ VecLen(data) = MaxRecords
    /\ Records(data)[2] = arg[1]

\* C6: on a well-formed store in strictly ascending order binary_search
\* finds e exactly when e is stored, at the index holding it, and otherwise
\* returns the number of stored records below e; find returns the stored
\* record or nothing accordingly.
C6_BinarySearchFindsOrGivesInsertionPoint ==
    (WellFormed(data) /\ StrictlyAscending(Records(data)))
        => /\ \A e \in Keys :
                LET bs == BinarySearch(data, e)
                    recs == Records(data)
                IN /\ ~bs.panic
                   /\ bs.is_found <=> e \in SeqSet(recs)
                   /\ bs.is_found => recs[bs.index + 1] = e
                   /\ ~bs.is_found
                        => bs.index = Cardinality({i \in DOMAIN recs : recs[i] < e})
           /\ op = "find"
                => /\ res = "Ok"
                   /\ ret = IF arg[1] \in SeqSet(Records(data))
                            THEN <<arg[1]>> ELSE <<>>

\* A find of an absent element lying between the first and the last record
\* of a full store.
C6_Witness ==
    /\ op = "find"
    /\ VecLen(data) = MaxRecords
    /\ StrictlyAscending(Records(data))
    /\ ret = <<>>
    /\ Records(data)[1] < arg[1]
    /\ arg[1] < Records(data)[MaxRecords]

\* C7: as long as every push has returned Ok, len() is the number of pushes
\* and an iterator run to its end has yielded the pushed elements in push
\* order; creating and stepping the iterator leaves the buffer as it was.
C7_IterYieldsPushedInOrder ==
    /\ failed_pushes = 0 => (WellFormed(data) /\ VecLen(data) = Len(pushed))
    /\ op \in {"iter", "next"} => data = old
    /\ (op = "next" /\ failed_pushes = 0)
           => /\ res = "Ok"
              /\ yielded = SubSeq(pushed, 1, Len(yielded))
              /\ ret = <<>> => yielded = pushed

\* An iterator over a full buffer has returned None after yielding all.
C7_Witness ==
    /\ op = "next"
    /\ failed_pushes = 0
    /\ ret = <<>>
    /\ Len(yielded) = MaxRecords

\* C8: deserialize_mut_slice never changes the buffer; it returns the error
\* and no reference whenever skip + len exceeds len(), and on a well-formed
\* buffer otherwise returns len references, the j-th at record skip + j; a
\* write through the j-th reference stores the value in record skip + j and
\* changes no other byte.
C8_MutSliceViewsAndFrame ==
    /\ op = "deserialize_mut_slice"
           => /\ data = old
              /\ NatCmp(NatAdd(arg[1], arg[2]), U64Of(VecLen(data))) > 0
                    => (res = "AccountDataTooSmall" /\ ret = <<>> /\ views = <<>>)
              /\ (/\ NatCmp(NatAdd(arg[1], arg[2]), U64Of(VecLen(data))) <= 0
                  /\ WellFormed(data))
                    => /\ res = "Ok"
                       /\ views = ret
                       /\ Len(ret) = USizeToInt(arg[2])
                       /\ \A j \in 1..Len(ret) :
                             ret[j] = VEC_SIZE_BYTES
                                      + (USizeToInt(arg[1]) + j - 1) * T_LEN
    /\ op = "view_write"
           => LET off == VEC_SIZE_BYTES + (USizeToInt(arg[1]) + arg[3]) * T_LEN
              IN /\ arg[3] < USizeToInt(arg[2])
                 /\ USizeToInt(arg[1]) + USizeToInt(arg[2]) <= VecLen(data)
                 /\ Slice(data, off, off + T_LEN) = PackIntoSlice(arg[4])
                 /\ \A i \in 1..Len(data) :
                       (i - 1 < off \/ i - 1 >= off + T_LEN) => data[i] = old[i]

\* C9: the product of two Fee values that both pass check passes check
\* again: its denominator is in (0, MAX_FEE_PRECISION] and its numerator is
\* at most its denominator.
C9_MulPreservesFeeInvariant ==
    (fee_op = "mul" /\ FeeCheck(lhs) = "Ok" /\ FeeCheck(rhs) = "Ok")
        => FeeCheck(fee) = "Ok"

\* C10: for a Fee with 0 < denominator and numerator <= denominator, apply
\* returns q with q * denominator <= amt * numerator < (q + 1) * denominator,
\* the cast of the u128 quotient to u64 loses nothing, and q <= amt.
C10_ApplyIsFloorAndAtMostAmount ==
    (/\ fee_op = "apply"
     /\ NatCmp(fee.denominator, U64Of(0)) > 0
     /\ NatCmp(fee.numerator, fee.denominator) <= 0)
        => LET q == applied.out
               exact == NatMul(amt, fee.numerator)
           IN /\ NatCmp(applied.fees, q) = 0
              /\ NatCmp(NatMul(q, fee.denominator), exact) <= 0
              /\ NatCmp(exact, NatMul(NatAdd(q, <<1>>), fee.denominator)) < 0
              /\ NatCmp(q, amt) <= 0

\* An apply whose product amt * numerator does not fit u64 and whose result
\* is a proper, non-zero part of the amount.
C10_Witness ==
    /\ fee_op = "apply"
    /\ NatCmp(fee.denominator, U64Of(0)) > 0
    /\ NatCmp(fee.numerator, fee.denominator) < 0
    /\ NatCmp(NatMul(amt, fee.numerator), U64_MAX) > 0
    /\ NatCmp(applied.out, U64Of(0)) > 0
    /\ NatCmp(applied.out, amt) < 0

\* The place of a sampled u64 in the ascending sequence U64Samples.
Rank(x) == CHOOSE i \in DOMAIN U64Samples : U64Samples[i] = x

\* The verdict the contract gives a (numerator, denominator) pair, by the
\* places of the two numbers relative to 0 and MAX_FEE_PRECISION.
Expected(p) ==
    LET n == Rank(p.numerator)
        d == Rank(p.denominator)
    IN IF d = Rank(U64Of(0)) \/ d > Rank(U64Of(MAX_FEE_PRECISION))
       THEN "InvalidFeeDenominator"
       ELSE IF n > d THEN "FeeTooHigh" ELSE "Ok"

\* C11: try_new(n, d) returns Ok exactly when 0 < d <= MAX_FEE_PRECISION and
\* n <= d, and the value it returns is {n, d}; it returns
\* InvalidFeeDenominator when d = 0 or d > MAX_FEE_PRECISION and FeeTooHigh
\* when d is valid and n > d; check on a pair gives the verdict try_new gives.
C11_TryNewAndCheckVerdicts ==
    /\ fee_op \in {"try_new", "check"}
          => /\ verdict = Expected(input)
             /\ verdict = FeeTryNewOp(input.numerator, input.denominator).res
    /\ (fee_op = "try_new" /\ verdict = "Ok") => fee = input

\* try_new accepts the largest fee: numerator and denominator both
\* MAX_FEE_PRECISION.
C11_Witness ==
    /\ fee_op = "try_new"
    /\ verdict = "Ok"
    /\ input.denominator = U64Of(MAX_FEE_PRECISION)
    /\ input.numerator = U64Of(MAX_FEE_PRECISION)
    /\ fee = input

====
